---- MODULE Spec2Model ----
(***************************************************************************)
(* TickerGenerator (com.grahamcrockford.oco.ticker): the subscription      *)
(* registry, the streaming reconnect sequence of subscribe /               *)
(* unsubscribeAll / resubscribeAll, and the polling loop of run().         *)
(*                                                                         *)
(* Caller threads invoke updateSubscriptions concurrently; one background  *)
(* thread executes run().  Each action is one step of the Java code        *)
(* between two points at which another thread can observe the state.       *)
(***************************************************************************)
EXTENDS Naturals, FiniteSets, TLC, Sequences

\* ------------------------------------------------------------------ bounds

\* Number of updateSubscriptions calls made in one behaviour.
MaxCalls == 3
\* Changes of authApi.authorised, and mounts of the Socket component.
MaxAuthChanges == 3
MaxMounts == 2

\* Threads that call updateSubscriptions.
Callers == {"t1", "t2"}

\* Exchanges known to the ExchangeService; X and Z are StreamingExchange
\* instances, Y offers request/response market data only.
StreamingExchanges == {"X", "Z"}
PollingExchanges == {"Y"}
Exchanges == StreamingExchanges \cup PollingExchanges

Pairs == {"BTC/USD", "ETH/USD"}

\* TickerSpec: value object (exchange, currency pair), equality by value.
TickerSpec(e, p) == [exchange |-> e, pair |-> p]
PairsOn(e) == IF e = "Z" THEN {"BTC/USD"} ELSE Pairs
SpecsOf(e) == {TickerSpec(e, p) : p \in PairsOn(e)}
TickerSpecs == UNION {SpecsOf(e) : e \in Exchanges}
PolledSpecs == UNION {SpecsOf(e) : e \in PollingExchanges}

\* One entry of byExchange.asMap(): the exchange name and its specs.  The
\* specs of an entry all carry the entry's exchange name, so that the
\* exchangeName subscribe reads from the first spec is the entry's key.
\* Entries with an empty collection exercise the isEmpty guard of subscribe
\* (the views of a Guava Multimap do not produce them).
Entry(e, S) == [ex |-> e, specs |-> S]
Entries == UNION {{Entry(e, S) : S \in SUBSET SpecsOf(e)} : e \in Exchanges}

\* The byExchange arguments tried: every single-entry map, and the
\* two-entry maps that mix a streaming and a polling exchange.
Requests ==
  {{en} : en \in Entries}
    \cup {{Entry("X", {TickerSpec("X", "ETH/USD")}), Entry("Y", {TickerSpec("Y", "BTC/USD")})},
          {Entry("Z", {TickerSpec("Z", "BTC/USD")}), Entry("Y", {TickerSpec("Y", "ETH/USD")})}}

StreamRequests == {req \in Requests : \E en \in req : en.ex \in StreamingExchanges}
PollRequests == Requests \ StreamRequests

NoEntry == [ex |-> "-", specs |-> {}]
None == "none"

\* A Disposable: the subscription of one spec's ticker stream, made in the
\* sid-th streaming session of its exchange (Disposables compare by identity).
Handles == [spec : TickerSpecs, sid : 1..(MaxCalls + 1)]
HandlesOf(H, e) == {h \in H : h.spec.exchange = e}

NoEvent == [src |-> "none"]
StreamEvent(h) == [src |-> "stream", spec |-> h.spec, sid |-> h.sid]
PollEvent(s) == [src |-> "poll", spec |-> s]
\* LOGGER.error of the onError callback of a stream, and of the catch in run().
StreamError(h) == [src |-> "streamError", spec |-> h.spec, sid |-> h.sid]
LoopError == [src |-> "loopError"]

VARIABLES
  activePolling,       \* Set<TickerSpec> activePolling
  subsPerExchange,     \* Multimap<String, Disposable>
  tickersPerExchange,  \* Multimap<String, TickerSpec>
  connected,           \* per streaming exchange: its connection is open
  declared,            \* pairs named in the ProductSubscription of the open connection
  undisposed,          \* Disposables created and not yet disposed
  sessions,            \* per exchange: number of connections opened so far
  lock,                \* owner of the TickerGenerator monitor, or None
  pc,                  \* per caller: position in updateSubscriptions / subscribe
  todo,                \* per caller: entries of byExchange not yet visited
  cur,                 \* per caller: the entry being processed
  oldSubs,             \* per caller: Disposables left to dispose in unsubscribeAll
  toSub,               \* per caller: specs left to subscribe in resubscribeAll
  calls,               \* number of updateSubscriptions calls started
  raised,              \* the exceptions that left subscribe: exchange and position
  serviceState,        \* Service.State of the AbstractExecutionThreadService
  pollPc,              \* position of the background thread in run()
  pending,             \* specs the activePolling.forEach of this pass has yet to visit
  interrupted,         \* interrupt status of the background thread
  passStart,           \* activePolling when the current pass began
  fetched,             \* specs for which this pass attempted a fetch
  delivered,           \* specs for which this pass published a TickerEvent
  failed,              \* specs whose fetch raised an error in this pass
  stopCalled,          \* stop() has been called
  sleepsSinceStop,     \* sleeps of the background thread that ended after stop()
  missed,              \* per polled spec: passes finished without fetching it
  published,           \* the TickerEvent posted, or the error logged, by the latest step
  authorised,          \* authApi.authorised as of the latest render of Socket
  uiPc,                \* position of the Socket component in its life cycle
  listening,           \* the callback of onConnectionStateChange is registered
  uiConnected,         \* the state `connected` of Socket (useState)
  socketCalls,         \* the calls of socketClient.connect / disconnect, in order
  authChanges,         \* number of changes of authApi.authorised so far
  mounts               \* number of times a Socket component was mounted

registry == <<activePolling, subsPerExchange, tickersPerExchange>>
world == <<connected, declared, undisposed, sessions>>
callerVars == <<lock, pc, todo, cur, oldSubs, toSub, calls>>
pollVars == <<serviceState, pollPc, pending, interrupted, passStart, fetched,
              delivered, failed, stopCalled, sleepsSinceStop, missed>>
uiVars == <<authorised, uiPc, listening, uiConnected, socketCalls, authChanges, mounts>>
vars == <<registry, world, callerVars, raised, pollVars, published, uiVars>>

\* Exchanges for which a subscribe call ended in an exception.
RaisedFor == {r.ex : r \in raised}

Init ==
  /\ activePolling = {}
  /\ subsPerExchange = [e \in Exchanges |-> {}]
  /\ tickersPerExchange = [e \in Exchanges |-> {}]
  /\ connected = [e \in StreamingExchanges |-> FALSE]
  /\ declared = [e \in StreamingExchanges |-> {}]
  /\ undisposed = {}
  /\ sessions = [e \in StreamingExchanges |-> 0]
  /\ lock = None
  /\ pc = [t \in Callers |-> "idle"]
  /\ todo = [t \in Callers |-> {}]
  /\ cur = [t \in Callers |-> NoEntry]
  /\ oldSubs = [t \in Callers |-> {}]
  /\ toSub = [t \in Callers |-> {}]
  /\ calls = 0
  /\ raised = {}
  /\ serviceState = "NEW"
  /\ pollPc = "unstarted"
  /\ pending = {}
  /\ interrupted = FALSE
  /\ passStart = {}
  /\ fetched = {}
  /\ delivered = {}
  /\ failed = {}
  /\ stopCalled = FALSE
  /\ sleepsSinceStop = 0
  /\ missed = [s \in PolledSpecs |-> 0]
  /\ published = NoEvent
  /\ authorised = FALSE
  /\ uiPc = "unmounted"
  /\ listening = FALSE
  /\ uiConnected = FALSE
  /\ socketCalls = <<>>
  /\ authChanges = 0
  /\ mounts = 0

\* ------------------------------------------------- updateSubscriptions

\* An exception leaves subscribe (releasing the monitor if held) and then
\* updateSubscriptions: the remaining entries are not visited.
Raise(t) ==
  /\ pc' = [pc EXCEPT ![t] = "idle"]
  /\ todo' = [todo EXCEPT ![t] = {}]
  /\ cur' = [cur EXCEPT ![t] = NoEntry]
  /\ oldSubs' = [oldSubs EXCEPT ![t] = {}]
  /\ toSub' = [toSub EXCEPT ![t] = {}]
  /\ lock' = IF lock = t THEN None ELSE lock
  /\ raised' = IF cur[t] = NoEntry THEN raised
                ELSE raised \cup {[ex |-> cur[t].ex, at |-> pc[t]]}

\* Mutant: the polling code is synchronized on the TickerGenerator too.
NeedsNoMonitor_Synchronized(owner) == owner = None

\* updateSubscriptions, run and fetchAndBroadcast are not synchronized:
\* they go on whoever owns the monitor.
NeedsNoMonitor(owner) == TRUE

\* Mutant: the polled set is replaced by the new specs.
AddAll_Replace(active, S) == S

\* activePolling.addAll(specsForExchange)
AddAll(active, S) == active \cup S

\* A caller enters updateSubscriptions(byExchange).
UpdateSubscriptions(t, req) ==
  /\ UNCHANGED uiVars
  /\ pc[t] = "idle"
  /\ calls < MaxCalls
  /\ calls' = calls + 1
  /\ pc' = [pc EXCEPT ![t] = "entries"]
  /\ todo' = [todo EXCEPT ![t] = req]
  /\ published' = NoEvent
  /\ UNCHANGED raised
  /\ UNCHANGED <<registry, world, pollVars, lock, cur, oldSubs, toSub>>

\* One iteration of byExchange.asMap().entrySet().forEach: the exchange is
\* looked up, and a polling exchange's specs are added to activePolling.
\* The weakly consistent iterator of a pass in progress may or may not
\* see the specs added meanwhile.
ForEachEntry(t) ==
  /\ UNCHANGED uiVars
  /\ pc[t] = "entries"
  /\ todo[t] # {}
  /\ published' = NoEvent
  /\ \E en \in todo[t], found \in BOOLEAN :
       IF ~found
       THEN /\ Raise(t)
            /\ UNCHANGED <<registry, world, pollVars, calls>>
       ELSE IF en.ex \in StreamingExchanges
       THEN /\ pc' = [pc EXCEPT ![t] = "acquire"]
            /\ cur' = [cur EXCEPT ![t] = en]
            /\ todo' = [todo EXCEPT ![t] = @ \ {en}]
            /\ UNCHANGED <<registry, world, pollVars, lock, oldSubs, toSub, calls, raised>>
       ELSE /\ NeedsNoMonitor(lock)
            /\ activePolling' = AddAll(activePolling, en.specs)
            /\ todo' = [todo EXCEPT ![t] = @ \ {en}]
            /\ \E seen \in SUBSET (en.specs \ activePolling) :
                 pending' = IF pollPc = "pass" THEN pending \cup seen ELSE pending
            /\ UNCHANGED <<subsPerExchange, tickersPerExchange, world, lock, pc, cur,
                           oldSubs, toSub, calls, raised, serviceState, pollPc, interrupted,
                           passStart, fetched, delivered, failed, stopCalled,
                           sleepsSinceStop, missed>>

\* updateSubscriptions returns once every entry has been visited.
Return(t) ==
  /\ UNCHANGED uiVars
  /\ pc[t] = "entries"
  /\ todo[t] = {}
  /\ pc' = [pc EXCEPT ![t] = "idle"]
  /\ published' = NoEvent
  /\ UNCHANGED raised
  /\ UNCHANGED <<registry, world, pollVars, lock, todo, cur, oldSubs, toSub, calls>>

\* ------------------------------------------------------------- subscribe

\* Mutant: subscribe without synchronized.
MonitorFree_Unsynchronized(owner) == TRUE

\* subscribe is synchronized: it is entered when no thread owns the monitor.
MonitorFree(owner) == owner = None

Acquire(t) ==
  /\ UNCHANGED uiVars
  /\ pc[t] = "acquire"
  /\ MonitorFree(lock)
  /\ lock' = t
  /\ pc' = [pc EXCEPT ![t] = "subscribe"]
  /\ published' = NoEvent
  /\ UNCHANGED raised
  /\ UNCHANGED <<registry, world, pollVars, todo, cur, oldSubs, toSub, calls>>

\* Mutant: subscribe without the isEmpty guard.
NothingToDo_NoGuard(S) == FALSE

\* if (specsForExchange.isEmpty()) return;
NothingToDo(S) == S = {}

SubscribeEnter(t) ==
  /\ UNCHANGED uiVars
  /\ pc[t] = "subscribe"
  /\ published' = NoEvent
  /\ UNCHANGED raised
  /\ IF NothingToDo(cur[t].specs)
     THEN /\ pc' = [pc EXCEPT ![t] = "entries"]
          /\ cur' = [cur EXCEPT ![t] = NoEntry]
          /\ lock' = None
     ELSE /\ pc' = [pc EXCEPT ![t] = "unsubscribeAll"]
          /\ UNCHANGED <<cur, lock>>
  /\ UNCHANGED <<registry, world, pollVars, todo, oldSubs, toSub, calls>>

\* Mutant: a failed disconnect still drops the recorded Disposables.
AfterFailedDisconnect_Cleared(subs, e) == [subs EXCEPT ![e] = {}]

\* subsPerExchange when disconnect().blockingAwait() throws: the exception
\* leaves unsubscribeAll before the dispose and the removeAll.
AfterFailedDisconnect(subs, e) == subs

\* Mutant: the disconnect is not awaited, the connection is still open.
Closed_NotAwaited(conn, e) == conn

\* The connections after disconnect().blockingAwait() of e completed.
Closed(conn, e) == [conn EXCEPT ![e] = FALSE]

\* unsubscribeAll, up to the disconnect: nothing is done when the exchange
\* has no recorded Disposables; otherwise the connection is closed first.
\* A disconnect that fails leaves the connection in either state.
Disconnect(t) ==
  /\ UNCHANGED uiVars
  /\ pc[t] = "unsubscribeAll"
  /\ published' = NoEvent
  /\ LET e == cur[t].ex IN
     IF subsPerExchange[e] = {}
     THEN /\ pc' = [pc EXCEPT ![t] = "putAll"]
          /\ UNCHANGED <<subsPerExchange, world, lock, todo, cur, oldSubs, toSub, raised>>
     ELSE \E ok \in BOOLEAN :
            IF ok
            THEN /\ connected' = Closed(connected, e)
                 /\ declared' = [declared EXCEPT ![e] = {}]
                 /\ oldSubs' = [oldSubs EXCEPT ![t] = subsPerExchange[e]]
                 /\ pc' = [pc EXCEPT ![t] = "dispose"]
                 /\ UNCHANGED <<subsPerExchange, undisposed, sessions, lock, todo, cur,
                                toSub, raised>>
            ELSE /\ \E open \in BOOLEAN :
                      /\ connected' = [connected EXCEPT ![e] = open]
                      /\ declared' = [declared EXCEPT ![e] = IF open THEN @ ELSE {}]
                 /\ subsPerExchange' = AfterFailedDisconnect(subsPerExchange, e)
                 /\ Raise(t)
                 /\ UNCHANGED <<undisposed, sessions>>
  /\ UNCHANGED <<activePolling, tickersPerExchange, pollVars, calls>>

\* Mutant: the old Disposables are dropped without being disposed.
Dispose_Skipped(live, h) == live

\* Disposable::dispose
Dispose(live, h) == live \ {h}

\* oldSubs.forEach(Disposable::dispose), one Disposable per step.
DisposeOne(t) ==
  /\ UNCHANGED uiVars
  /\ pc[t] = "dispose"
  /\ oldSubs[t] # {}
  /\ published' = NoEvent
  /\ UNCHANGED raised
  /\ \E h \in oldSubs[t] :
       /\ undisposed' = Dispose(undisposed, h)
       /\ oldSubs' = [oldSubs EXCEPT ![t] = @ \ {h}]
  /\ UNCHANGED <<registry, connected, declared, sessions, pollVars, lock, pc, todo, cur,
                 toSub, calls>>

\* Mutant: the old Disposables stay recorded.
RemoveAll_Skipped(subs, e) == subs

\* subsPerExchange.removeAll(exchange)
RemoveAll(subs, e) == [subs EXCEPT ![e] = {}]

RemoveSubs(t) ==
  /\ UNCHANGED uiVars
  /\ pc[t] = "dispose"
  /\ oldSubs[t] = {}
  /\ subsPerExchange' = RemoveAll(subsPerExchange, cur[t].ex)
  /\ pc' = [pc EXCEPT ![t] = "putAll"]
  /\ published' = NoEvent
  /\ UNCHANGED raised
  /\ UNCHANGED <<activePolling, tickersPerExchange, world, pollVars, lock, todo, cur,
                 oldSubs, toSub, calls>>

\* Mutant: the new specs replace the tracked ones.
PutAll_Replace(tickers, e, S) == [tickers EXCEPT ![e] = S]

\* tickersPerExchange.putAll(exchangeName, specsForExchange)
PutAll(tickers, e, S) == [tickers EXCEPT ![e] = @ \cup S]

AddTickers(t) ==
  /\ UNCHANGED uiVars
  /\ pc[t] = "putAll"
  /\ tickersPerExchange' = PutAll(tickersPerExchange, cur[t].ex, cur[t].specs)
  /\ pc' = [pc EXCEPT ![t] = "resubscribeAll"]
  /\ published' = NoEvent
  /\ UNCHANGED raised
  /\ UNCHANGED <<activePolling, subsPerExchange, world, pollVars, lock, todo, cur,
                 oldSubs, toSub, calls>>

\* The ProductSubscription built from the tickers.
ProductSubscription(tickers) == {s.pair : s \in tickers}

\* resubscribeAll, up to the connect: all tickers recorded for the exchange
\* are declared.  A connect that fails raises out of subscribe.
Connect(t) ==
  /\ UNCHANGED uiVars
  /\ pc[t] = "resubscribeAll"
  /\ published' = NoEvent
  /\ LET e == cur[t].ex
         tickers == tickersPerExchange[e] IN
     IF tickers = {}
     THEN /\ pc' = [pc EXCEPT ![t] = "subscribed"]
          /\ UNCHANGED <<world, lock, todo, cur, oldSubs, toSub, raised>>
     ELSE \E ok \in BOOLEAN :
            IF ok
            THEN /\ connected' = [connected EXCEPT ![e] = TRUE]
                 /\ declared' = [declared EXCEPT ![e] = ProductSubscription(tickers)]
                 /\ sessions' = [sessions EXCEPT ![e] = @ + 1]
                 /\ toSub' = [toSub EXCEPT ![t] = tickers]
                 /\ pc' = [pc EXCEPT ![t] = "getTicker"]
                 /\ UNCHANGED <<undisposed, lock, todo, cur, oldSubs, raised>>
            ELSE /\ Raise(t)
                 /\ UNCHANGED world
  /\ UNCHANGED <<registry, pollVars, calls>>

\* Mutant: the new Disposable is not recorded.
Put_Skipped(subs, e, h) == subs

\* subsPerExchange.put(s.exchange(), subscription)
Put(subs, e, h) == [subs EXCEPT ![e] = @ \cup {h}]

\* One iteration of the for loop of resubscribeAll: the ticker stream of s
\* is subscribed and the Disposable recorded; a subscribe that throws
\* raises out of subscribe with the earlier Disposables recorded.
GetTicker(t) ==
  /\ UNCHANGED uiVars
  /\ pc[t] = "getTicker"
  /\ published' = NoEvent
  /\ \E s \in toSub[t], ok \in BOOLEAN :
       IF ok
       THEN LET h == [spec |-> s, sid |-> sessions[s.exchange]] IN
            /\ undisposed' = undisposed \cup {h}
            /\ subsPerExchange' = Put(subsPerExchange, s.exchange, h)
            /\ toSub' = [toSub EXCEPT ![t] = @ \ {s}]
            /\ pc' = [pc EXCEPT ![t] = IF toSub[t] = {s} THEN "subscribed" ELSE @]
            /\ UNCHANGED <<lock, todo, cur, oldSubs, raised>>
       ELSE /\ Raise(t)
            /\ UNCHANGED <<undisposed, subsPerExchange>>
  /\ UNCHANGED <<activePolling, tickersPerExchange, connected, declared, sessions,
                 pollVars, calls>>

\* LOGGER.info("Subscribed to ticker stream: ...") and the return from
\* subscribe, which releases the monitor.
Subscribed(t) ==
  /\ UNCHANGED uiVars
  /\ pc[t] = "subscribed"
  /\ pc' = [pc EXCEPT ![t] = "entries"]
  /\ cur' = [cur EXCEPT ![t] = NoEntry]
  /\ lock' = None
  /\ published' = NoEvent
  /\ UNCHANGED raised
  /\ UNCHANGED <<registry, world, pollVars, todo, oldSubs, toSub, calls>>

\* onTicker(s, ticker) called from the stream of an undisposed subscription
\* on an open connection.
OnStreamTicker(h) ==
  /\ UNCHANGED uiVars
  /\ h \in undisposed
  /\ connected[h.spec.exchange]
  /\ published' = StreamEvent(h)
  /\ UNCHANGED <<registry, world, callerVars, raised, pollVars>>

\* Mutant: an error of one stream ends the streams of its whole exchange.
AfterStreamError_AllEnded(live, h) == live \ HandlesOf(live, h.spec.exchange)

\* The subscriptions still live after the stream of h signalled onError: an
\* Observable ends with its error, so h delivers nothing more; the others
\* are untouched.
AfterStreamError(live, h) == live \ {h}

\* The ticker stream of h signals an error: the onError callback given to
\* subscribe logs it.  The Disposable stays recorded in subsPerExchange.
OnStreamError(h) ==
  /\ UNCHANGED uiVars
  /\ h \in undisposed
  /\ connected[h.spec.exchange]
  /\ undisposed' = AfterStreamError(undisposed, h)
  /\ published' = StreamError(h)
  /\ UNCHANGED <<registry, connected, declared, sessions, callerVars, raised, pollVars>>

\* ------------------------------------------------------------------- run

\* startAsync(): the service thread is created and run() entered.
Start ==
  /\ UNCHANGED uiVars
  /\ serviceState = "NEW"
  /\ serviceState' = "RUNNING"
  /\ pollPc' = "check"
  /\ published' = NoEvent
  /\ UNCHANGED raised
  /\ UNCHANGED <<registry, world, callerVars, pending, interrupted, passStart, fetched,
                 delivered, failed, stopCalled, sleepsSinceStop, missed>>

\* stopAsync(): the service leaves RUNNING (a service never started goes
\* straight to TERMINATED).  TickerGenerator overrides no triggerShutdown,
\* so nothing in the class interrupts the thread; a shutdown that does
\* interrupt it is covered by the nondeterministic choice.
Stop ==
  /\ UNCHANGED uiVars
  /\ serviceState \in {"NEW", "RUNNING"}
  /\ serviceState' = IF serviceState = "NEW" THEN "TERMINATED" ELSE "STOPPING"
  /\ stopCalled' = TRUE
  /\ \E intr \in BOOLEAN : interrupted' = (intr /\ serviceState = "RUNNING")
  /\ published' = NoEvent
  /\ UNCHANGED raised
  /\ UNCHANGED <<registry, world, callerVars, pollPc, pending, passStart, fetched,
                 delivered, failed, sleepsSinceStop, missed>>

\* Mutant: while (true).
IsRunning_Always(state) == TRUE

\* isRunning()
IsRunning(state) == state = "RUNNING"

\* while (isRunning()): a pass over activePolling begins, or run() returns.
LoopCheck ==
  /\ UNCHANGED uiVars
  /\ pollPc = "check"
  /\ published' = NoEvent
  /\ UNCHANGED raised
  /\ IF IsRunning(serviceState)
     THEN /\ pollPc' = "pass"
          /\ pending' = activePolling
          /\ passStart' = activePolling
          /\ fetched' = {}
          /\ delivered' = {}
          /\ failed' = {}
          /\ UNCHANGED serviceState
     ELSE /\ pollPc' = "exited"
          /\ serviceState' = "TERMINATED"
          /\ UNCHANGED <<pending, passStart, fetched, delivered, failed>>
  /\ UNCHANGED <<registry, world, callerVars, interrupted, stopCalled, sleepsSinceStop,
                 missed>>

\* The outcomes of exchangeService.get(..).getMarketDataService().getTicker(..)
FetchOutcomes == {"ok", "lookupFailed", "fetchFailed"}

\* Mutant: fetchAndBroadcast without its try / catch.
Escapes_NoCatch(outcome) == outcome # "ok"

\* Whether an outcome leaves fetchAndBroadcast as an exception: its body is
\* wrapped in try / catch (Throwable), so none does.
Escapes(outcome) == FALSE

\* fetchAndBroadcast(s) for the next spec of activePolling.forEach.  An
\* exception leaving it would end the forEach in the catch of run().
FetchAndBroadcast(s) ==
  /\ UNCHANGED uiVars
  /\ pollPc = "pass"
  /\ s \in pending
  /\ NeedsNoMonitor(lock)
  /\ \E outcome \in FetchOutcomes :
       /\ fetched' = fetched \cup {s}
       /\ IF outcome = "ok"
          THEN /\ published' = PollEvent(s)
               /\ delivered' = delivered \cup {s}
               /\ UNCHANGED failed
          ELSE /\ published' = NoEvent
               /\ failed' = failed \cup {s}
               /\ UNCHANGED delivered
       /\ pending' = IF Escapes(outcome) THEN {} ELSE pending \ {s}
  /\ UNCHANGED <<registry, world, callerVars, raised, serviceState, pollPc, interrupted,
                 passStart, stopCalled, sleepsSinceStop, missed>>

\* The forEach is over; the thread calls sleep.sleep().
EndPass ==
  /\ UNCHANGED uiVars
  /\ pollPc = "pass"
  /\ pending = {}
  /\ pollPc' = "sleep"
  /\ missed' = [s \in PolledSpecs |->
                  IF s \in activePolling /\ s \notin fetched /\ missed[s] < 2
                  THEN missed[s] + 1 ELSE missed[s]]
  /\ published' = NoEvent
  /\ UNCHANGED raised
  /\ UNCHANGED <<registry, world, callerVars, serviceState, pending, interrupted,
                 passStart, fetched, delivered, failed, stopCalled, sleepsSinceStop>>

\* Mutant: run() without its catch (Throwable): the error leaves run().
AfterLoopError_Uncaught == "exited"

\* Where run() goes after catch (Throwable e) has logged "Serious error.
\* Trying to stay alive": on to the sleep.
AfterLoopError == "sleep"

\* A Throwable leaves fetchAndBroadcast(s) in spite of its own catch (one
\* thrown inside that catch block, say): the forEach is abandoned and the
\* catch (Throwable) of run() logs it.
UnexpectedError ==
  /\ UNCHANGED uiVars
  /\ pollPc = "pass"
  /\ \E s \in pending :
       /\ fetched' = fetched \cup {s}
       /\ failed' = failed \cup {s}
       /\ missed' = [q \in PolledSpecs |->
                       IF q \in activePolling /\ q \notin fetched' /\ missed[q] < 2
                       THEN missed[q] + 1 ELSE missed[q]]
  /\ pending' = {}
  /\ pollPc' = AfterLoopError
  /\ serviceState' = IF pollPc' = "exited" THEN "TERMINATED" ELSE serviceState
  /\ published' = LoopError
  /\ UNCHANGED raised
  /\ UNCHANGED <<registry, world, callerVars, interrupted, passStart, delivered,
                 stopCalled, sleepsSinceStop>>

\* Mutant: run() breaks out of the loop after any sleep.
AfterSleep_AlwaysBreak(intr) == "exited"

\* Where run() goes when sleep.sleep() ends: InterruptedException breaks
\* out of the loop.
AfterSleep(intr) == IF intr THEN "exited" ELSE "check"

SleepEnd ==
  /\ UNCHANGED uiVars
  /\ pollPc = "sleep"
  /\ pollPc' = AfterSleep(interrupted)
  /\ interrupted' = FALSE
  /\ serviceState' = IF pollPc' = "exited" THEN "TERMINATED" ELSE serviceState
  /\ sleepsSinceStop' = IF stopCalled /\ sleepsSinceStop < 2
                        THEN sleepsSinceStop + 1 ELSE sleepsSinceStop
  /\ published' = NoEvent
  /\ UNCHANGED raised
  /\ UNCHANGED <<registry, world, callerVars, pending, passStart, fetched, delivered,
                 failed, stopCalled, missed>>

\* ----------------------------------------------------------- Socket.tsx

serverVars == <<registry, world, callerVars, raised, pollVars, published>>

\* Mutant: the effect connects whatever authApi.authorised is.
ShouldConnect_Always(auth) == TRUE

\* if (authApi.authorised) socketClient.connect()
ShouldConnect(auth) == auth

\* A Socket component is mounted and rendered with the current value of
\* authApi.authorised; its effects are due, with no cleanup to run first.
\* socketClient is a module, shared by successive components.
Mount ==
  /\ uiPc \in {"unmounted", "gone"}
  /\ mounts < MaxMounts
  /\ mounts' = mounts + 1
  /\ \E auth \in BOOLEAN : authorised' = auth
  /\ uiPc' = "effect"
  /\ uiConnected' = FALSE
  /\ UNCHANGED <<listening, socketCalls, authChanges, serverVars>>

\* authApi.authorised changes and Socket renders again: the dependency of
\* the effect has changed, so its cleanup and then the effect are due.
\* Pending effects are flushed before the next render.
AuthChange ==
  /\ uiPc = "idle"
  /\ authChanges < MaxAuthChanges
  /\ authChanges' = authChanges + 1
  /\ authorised' = ~authorised
  /\ uiPc' = "cleanup"
  /\ UNCHANGED <<listening, uiConnected, socketCalls, mounts, serverVars>>

\* The cleanup returned by the previous run of the effect:
\* () => socketClient.disconnect()
Cleanup ==
  /\ uiPc = "cleanup"
  /\ socketCalls' = Append(socketCalls, "disconnect")
  /\ uiPc' = "effect"
  /\ UNCHANGED <<authorised, listening, uiConnected, authChanges, mounts, serverVars>>

\* The effect with dependency [authApi.authorised]; after the first render
\* the effect that registers the onConnectionStateChange callback runs too.
Effect ==
  /\ uiPc = "effect"
  /\ socketCalls' = IF ShouldConnect(authorised)
                    THEN Append(socketCalls, "connect") ELSE socketCalls
  /\ listening' = TRUE
  /\ uiPc' = "idle"
  /\ UNCHANGED <<authorised, uiConnected, authChanges, mounts, serverVars>>

\* The component unmounts: the cleanup of the effect runs.
Unmount ==
  /\ uiPc = "idle"
  /\ socketCalls' = Append(socketCalls, "disconnect")
  /\ uiPc' = "gone"
  /\ UNCHANGED <<authorised, listening, uiConnected, authChanges, mounts, serverVars>>

\* socketClient reports a new connection state: setConnected(newState).
OnConnectionStateChange(newState) ==
  /\ listening
  /\ uiPc \in {"idle", "cleanup", "effect"}
  /\ newState # uiConnected
  /\ uiConnected' = newState
  /\ UNCHANGED <<authorised, uiPc, listening, socketCalls, authChanges, mounts, serverVars>>

SocketNext ==
  \/ Mount
  \/ AuthChange
  \/ Cleanup
  \/ Effect
  \/ Unmount
  \/ \E newState \in BOOLEAN : OnConnectionStateChange(newState)

\* The Socket component of the UI; the server side does not move.
SocketSpec == Init /\ [][SocketNext]_vars

\* ------------------------------------------------------------------ spec

\* The steps of a caller inside updateSubscriptions and subscribe.
InCall(t) ==
  \/ ForEachEntry(t)
  \/ Return(t)
  \/ Acquire(t)
  \/ SubscribeEnter(t)
  \/ Disconnect(t)
  \/ DisposeOne(t)
  \/ RemoveSubs(t)
  \/ AddTickers(t)
  \/ Connect(t)
  \/ GetTicker(t)
  \/ Subscribed(t)

PollStep ==
  \/ LoopCheck
  \/ \E s \in PolledSpecs : FetchAndBroadcast(s)
  \/ EndPass
  \/ SleepEnd

\* The whole program: callers with any request, the streams, the service.
Next ==
  \/ \E t \in Callers : (\E req \in Requests : UpdateSubscriptions(t, req)) \/ InCall(t)
  \/ \E h \in Handles : OnStreamTicker(h) \/ OnStreamError(h)
  \/ Start
  \/ Stop
  \/ PollStep
  \/ UnexpectedError
  \/ SocketNext

Spec == Init /\ [][Next]_vars

\* The streaming side: callers whose requests name a streaming exchange,
\* and streams that deliver tickers; the service is not started.  run() reads and writes
\* none of subsPerExchange, tickersPerExchange and the monitor.
StreamNext ==
  \/ \E t \in Callers : (\E req \in StreamRequests : UpdateSubscriptions(t, req)) \/ InCall(t)
  \/ \E h \in Handles : OnStreamTicker(h)

StreamSpec == Init /\ [][StreamNext]_vars

\* The streaming side with streams that end in an error, for the requests
\* that name exchange X only.
StreamErrorRequests == {req \in StreamRequests : \A en \in req : en.ex = "X"}

StreamErrorNext ==
  \/ \E t \in Callers :
       (\E req \in StreamErrorRequests : UpdateSubscriptions(t, req)) \/ InCall(t)
  \/ \E h \in Handles : OnStreamTicker(h) \/ OnStreamError(h)

StreamErrorSpec == Init /\ [][StreamErrorNext]_vars

\* The polling side: the service, its background thread, and callers whose
\* requests name polling exchanges only (they never enter subscribe).
PollNext ==
  \/ \E t \in Callers :
       \/ \E req \in PollRequests : UpdateSubscriptions(t, req)
       \/ ForEachEntry(t)
       \/ Return(t)
  \/ Start
  \/ Stop
  \/ PollStep

PollSpec == Init /\ [][PollNext]_vars

\* The background thread is a running Java thread: each step of run() that
\* is possible is eventually taken (a fetch and a sleep both return).
FairPollSpec == PollSpec /\ WF_vars(PollStep)

\* Both sides at once, on one streaming exchange with one pair: callers
\* that go through subscribe for Z, callers that add the specs of Y to
\* the polled set, the streams of Z and the service.
MixedRequests == {{Entry("Z", SpecsOf("Z"))}, {Entry("Y", SpecsOf("Y"))}}

MixedNext ==
  \/ \E t \in Callers : (\E req \in MixedRequests : UpdateSubscriptions(t, req)) \/ InCall(t)
  \/ \E h \in Handles : OnStreamTicker(h)
  \/ Start
  \/ Stop
  \/ PollStep

MixedSpec == Init /\ [][MixedNext]_vars

\* Only the background thread is fair: a caller may stay inside subscribe,
\* blocked in connect or disconnect, for ever.
FairMixedSpec == MixedSpec /\ WF_vars(PollStep)

\* The polling side with Throwables that escape fetchAndBroadcast.
StayAliveNext ==
  \/ PollNext
  \/ UnexpectedError

StayAliveSpec == Init /\ [][StayAliveNext]_vars

\* The background thread keeps running; no fairness is asked of the errors.
FairStayAliveSpec == StayAliveSpec /\ WF_vars(PollStep)

\* ---------------------------------------------------------------- claims

\* Positions of a caller inside the synchronized method subscribe.
InSubscribe ==
  {"subscribe", "unsubscribeAll", "dispose", "putAll", "resubscribeAll", "getTicker",
   "subscribed"}

\* C1 (as stated): when subscribe(S) for exchange E is about to return
\* normally, and no earlier call for E has raised, the tickers tracked for
\* E are exactly S and exactly |S| Disposables are recorded for E.
C1_TrackedSetIsDesired ==
  \A t \in Callers :
    (pc[t] = "subscribed" /\ cur[t].ex \notin RaisedFor)
      => /\ tickersPerExchange[cur[t].ex] = cur[t].specs
         /\ Cardinality(subsPerExchange[cur[t].ex]) = Cardinality(cur[t].specs)

\* C2 (as stated): when subscribe(S2) for exchange E is about to return
\* normally, and no earlier call for E has raised, the open connection
\* declares exactly the pairs of S2 and no undisposed stream subscription of
\* E is for a spec outside S2, so none can publish an event for S1 \ S2.
C2_OnlyNewSetStreams ==
  \A t \in Callers :
    (pc[t] = "subscribed" /\ cur[t].ex \notin RaisedFor)
      => /\ declared[cur[t].ex] = ProductSubscription(cur[t].specs)
         /\ \A h \in HandlesOf(undisposed, cur[t].ex) : h.spec \in cur[t].specs

\* C3: no leaked subscriptions.  When a subscribe call for E is about to
\* return normally, every Disposable of E that is undisposed or recorded in
\* subsPerExchange belongs to the session that call opened; and whenever no
\* caller is inside subscribe, a stream event comes from a subscription of
\* its exchange's latest session.
C3_NoLeakedSubscriptions ==
  /\ \A t \in Callers :
       pc[t] = "subscribed"
         => \A h \in HandlesOf(undisposed, cur[t].ex) \cup subsPerExchange[cur[t].ex] :
              h.sid = sessions[cur[t].ex]
  /\ (published.src = "stream" /\ lock = None)
       => published.sid = sessions[published.spec.exchange]

\* C3 witness: after two successful sessions of X, with no caller inside
\* subscribe, a stream of the second session publishes an event.
C3_Witness ==
  /\ published.src = "stream"
  /\ lock = None
  /\ raised = {}
  /\ published.spec.exchange = "X"
  /\ sessions["X"] = 2

\* C4: teardown before reconnect.  In every state, every undisposed
\* Disposable of an exchange belongs to the latest session opened for it:
\* a connect (which starts the next session) is issued only when no
\* Disposable of the previous session is undisposed, and Disposables of two
\* sessions are never live together.
C4_TeardownBeforeReconnect ==
  \A e \in StreamingExchanges :
    \A h \in HandlesOf(undisposed, e) : h.sid = sessions[e]

\* C4 witness: the second session of X has just been connected after a
\* first session that had subscriptions, and creates its Disposables.
C4_Witness ==
  \E t \in Callers :
    /\ pc[t] = "getTicker"
    /\ cur[t].ex = "X"
    /\ sessions["X"] = 2
    /\ "X" \notin RaisedFor
    /\ HandlesOf(undisposed, "X") # {}

\* C5 (as stated): whenever no caller is inside subscribe, each streaming
\* exchange has recorded Disposables iff it has tracked tickers, and its
\* connection is open only if it has recorded Disposables.
C5_HandlesIffTickers ==
  lock = None
    => \A e \in StreamingExchanges :
         /\ (subsPerExchange[e] # {}) <=> (tickersPerExchange[e] # {})
         /\ connected[e] => subsPerExchange[e] # {}

\* C6: mutual exclusion.  At most one caller is inside subscribe, and it
\* owns the monitor.
C6_MutualExclusion ==
  /\ Cardinality({t \in Callers : pc[t] \in InSubscribe}) <= 1
  /\ \A t \in Callers : pc[t] \in InSubscribe => lock = t

\* C6 witness: one caller is inside subscribe for X while another waits
\* for the monitor with a call for Z.
C6_Witness ==
  \E t, u \in Callers :
    /\ pc[t] \in InSubscribe \ {"subscribe"}
    /\ cur[t].ex = "X"
    /\ pc[u] = "acquire"
    /\ cur[u].ex = "Z"

\* C7: per-instrument poll isolation.  When a pass is over, a fetch was
\* attempted for every spec that was in activePolling when the pass began,
\* whatever the outcome of the other fetches, and a TickerEvent was
\* published for every spec whose fetch succeeded; the loop is left only
\* after stop().
C7_PollIsolation ==
  /\ pollPc = "sleep" => passStart \subseteq fetched
  /\ pollPc \in {"pass", "sleep"} => delivered = fetched \ failed
  /\ pollPc = "exited" => stopCalled

\* C7 witness: a pass over two specs is over, in which one fetch failed and
\* the other published its event.
C7_Witness ==
  /\ pollPc = "sleep"
  /\ Cardinality(passStart) = 2
  /\ failed # {}
  /\ delivered # {}

\* C8: after stop() is called on the running service the background thread
\* eventually exits; at most one sleep ends after the call, no pass begins
\* once that sleep has ended, and the exited thread publishes nothing.
C8_StopExitsWithinOneSleep ==
  /\ (stopCalled /\ pollPc # "unstarted") ~> (pollPc = "exited")
  /\ [](sleepsSinceStop <= 1)
  /\ [](sleepsSinceStop = 1 => pollPc \in {"check", "exited"})
  /\ [](pollPc = "exited" => published.src # "poll")

\* C8 witness: stop() was called on the running service; one sleep ended
\* after the call and the thread has exited.
C8_Witness ==
  /\ pollPc = "exited"
  /\ sleepsSinceStop = 1
  /\ fetched # {}

\* C9: eventually polled.  Once a spec is in activePolling and the service
\* has been started, a fetch for it is issued in the pass in progress or the
\* next one, unless stop() is called: at most one pass ends without it, and
\* every pass that begins with the spec fetches it.
C9_EventuallyPolled ==
  \A s \in PolledSpecs :
    /\ (s \in activePolling /\ pollPc # "unstarted") ~> (s \in fetched \/ stopCalled)
    /\ [](missed[s] <= 1)
    /\ []((pollPc = "sleep" /\ s \in passStart) => s \in fetched)

\* C9 witness: a spec added in the middle of a pass was not seen by that
\* pass and is fetched by the next.
C9_Witness ==
  \E s \in PolledSpecs :
    /\ missed[s] = 1
    /\ s \in fetched
    /\ ~stopCalled

\* C10: subscribe with an empty collection is a no-op.  The step a caller
\* takes inside subscribe with an empty collection leaves subscribe and
\* changes neither the registry nor any connection, Disposable or session.
C10_EmptyIsNoOp ==
  [][\A t \in Callers :
       (pc[t] = "subscribe" /\ cur[t].specs = {} /\ pc'[t] # pc[t])
         => /\ pc'[t] = "entries"
            /\ lock' = None
            /\ UNCHANGED <<registry, world, raised>>]_vars

\* C10 witness: a caller is inside subscribe with an empty collection for
\* an exchange that has an open session with recorded Disposables.
C10_Witness ==
  \E t \in Callers :
    /\ pc[t] = "subscribe"
    /\ cur[t].specs = {}
    /\ subsPerExchange[cur[t].ex] # {}
    /\ connected[cur[t].ex]

C12_ConnectFailure ==
  /\ [][\A t \in Callers :
          (pc[t] = "resubscribeAll" /\ pc'[t] = "idle")
            => /\ subsPerExchange'[cur[t].ex] = {}
               /\ HandlesOf(undisposed', cur[t].ex) = {}
               /\ cur[t].specs \subseteq tickersPerExchange'[cur[t].ex]
               /\ lock' = None
               /\ todo'[t] = {}]_vars
  /\ [](\A t \in Callers :
          pc[t] = "resubscribeAll" => tickersPerExchange[cur[t].ex] # {})
  /\ [](\A t \in Callers :
          pc[t] = "subscribed"
            => /\ {h.spec : h \in subsPerExchange[cur[t].ex]} = tickersPerExchange[cur[t].ex]
               /\ Cardinality(subsPerExchange[cur[t].ex])
                    = Cardinality(tickersPerExchange[cur[t].ex]))

\* C12 witness: the only exception for X was a failed connect, and a later
\* call for X has connected and subscribed every tracked ticker.
C12_Witness ==
  \E t \in Callers :
    /\ pc[t] = "subscribed"
    /\ cur[t].ex = "X"
    /\ raised = {[ex |-> "X", at |-> "resubscribeAll"]}
    /\ sessions["X"] = 1

\* C13: per-instrument stream isolation.  A step in which a stream signals
\* an error changes neither the registry nor any caller nor any connection,
\* raises nothing, and leaves every other subscription undisposed.
C13_StreamErrorIsolated ==
  [][published'.src = "streamError"
       => /\ UNCHANGED <<registry, callerVars, raised, connected, declared, sessions>>
          /\ undisposed \ {[spec |-> published'.spec, sid |-> published'.sid]}
               \subseteq undisposed']_vars

\* C13 witness: a stream of X has just signalled an error while another
\* subscription of X is undisposed on the open connection.
C13_Witness ==
  /\ published.src = "streamError"
  /\ published.spec.exchange = "X"
  /\ connected["X"]
  /\ \E h \in HandlesOf(undisposed, "X") : h.spec # published.spec

\* C18: teardown step order.  Disposables are disposed only while the
\* connection is closed; they are removed from subsPerExchange only when
\* none of them is undisposed; and with no recorded Disposable unsubscribeAll
\* goes on without touching the connection.
C18_TeardownOrder ==
  /\ [](\A t \in Callers : pc[t] = "dispose" => ~connected[cur[t].ex])
  /\ [][\A e \in StreamingExchanges :
          (subsPerExchange'[e] # subsPerExchange[e] /\ subsPerExchange'[e] = {})
            => subsPerExchange[e] \cap undisposed = {}]_vars
  /\ [][\A t \in Callers :
          (pc[t] = "unsubscribeAll" /\ subsPerExchange[cur[t].ex] = {} /\ pc'[t] # pc[t])
            => /\ pc'[t] = "putAll"
               /\ UNCHANGED <<connected, declared>>]_vars

\* C18 witness: the connection of the exchange is closed and every old
\* Disposable disposed, and they are still recorded.
C18_Witness ==
  \E t \in Callers :
    /\ pc[t] = "dispose"
    /\ oldSubs[t] = {}
    /\ subsPerExchange[cur[t].ex] # {}
    /\ ~connected[cur[t].ex]

\* C19: accumulation.  The tracked set of an exchange changes only by
\* gaining the specs of the call in progress; when a call is about to return
\* normally, no call for the exchange having raised, the tracked set holds
\* the call's specs, the connection declares every tracked pair and there
\* is one recorded Disposable per tracked ticker.
C19_Accumulation ==
  /\ [][\A e \in StreamingExchanges :
          tickersPerExchange'[e] # tickersPerExchange[e]
            => \E t \in Callers :
                 /\ pc[t] = "putAll"
                 /\ cur[t].ex = e
                 /\ tickersPerExchange'[e] = tickersPerExchange[e] \cup cur[t].specs]_vars
  /\ [](\A t \in Callers :
          (pc[t] = "subscribed" /\ cur[t].ex \notin RaisedFor)
            => /\ cur[t].specs \subseteq tickersPerExchange[cur[t].ex]
               /\ declared[cur[t].ex] = ProductSubscription(tickersPerExchange[cur[t].ex])
               /\ Cardinality(subsPerExchange[cur[t].ex])
                    = Cardinality(tickersPerExchange[cur[t].ex]))

\* C19 witness: the second successful call for X asked for one spec and
\* returns with both specs tracked and two Disposables recorded.
C19_Witness ==
  \E t \in Callers :
    /\ pc[t] = "subscribed"
    /\ cur[t].ex = "X"
    /\ raised = {}
    /\ sessions["X"] = 2
    /\ Cardinality(cur[t].specs) = 1
    /\ Cardinality(tickersPerExchange["X"]) = 2
    /\ Cardinality(subsPerExchange["X"]) = 2

\* C20: failed teardown.  When the disconnect of unsubscribeAll fails the
\* exception leaves subscribe and the registry is as before the call: the
\* old Disposables are still recorded and undisposed as they were, the
\* tracked set has not gained the new specs, no session was opened; the
\* Disposables still recorded make the next call disconnect again.
C20_FailedTeardown ==
  [][\A t \in Callers :
       (pc[t] = "unsubscribeAll" /\ pc'[t] = "idle")
         => /\ UNCHANGED <<registry, undisposed, sessions>>
            /\ subsPerExchange'[cur[t].ex] # {}
            /\ lock' = None]_vars

\* C20 witness: after a failed disconnect for X a later call for X has
\* disconnected and is disposing the old Disposables.
C20_Witness ==
  \E t \in Callers :
    /\ pc[t] = "dispose"
    /\ cur[t].ex = "X"
    /\ [ex |-> "X", at |-> "unsubscribeAll"] \in raised

\* C17 (as stated): the polled set is the union of every instrument set
\* passed for a polling exchange.  The entries a call visited were added, so
\* when a call ends the specs of the entries it had still to visit must be in
\* the polled set too.
C17_PolledIsUnionOfPassed ==
  [][\A t \in Callers :
       (pc[t] # "idle" /\ pc'[t] = "idle")
         => \A en \in todo[t] :
              en.ex \in PollingExchanges => en.specs \subseteq activePolling']_vars

\* C17 (amended): the polled set only grows.  It changes only when
\* updateSubscriptions visits the entry of a polling exchange, and then by
\* gaining exactly the specs of that entry; entries that an exception kept
\* the call from visiting add nothing.  Every pass that reaches its sleep
\* has attempted a fetch for every spec polled when the pass began.
C17_PolledOnlyGrows ==
  /\ [][activePolling \subseteq activePolling']_vars
  /\ [][activePolling' # activePolling
          => \E t \in Callers :
               /\ pc[t] = "entries"
               /\ \E en \in todo[t] :
                    /\ en.ex \in PollingExchanges
                    /\ todo'[t] = todo[t] \ {en}
                    /\ activePolling' = activePolling \cup en.specs]_vars
  /\ [][\A t \in Callers :
          (pc[t] = "entries" /\ pc'[t] = "entries")
            => \A en \in todo[t] \ todo'[t] : en.specs \subseteq activePolling']_vars
  /\ [](pollPc = "sleep" => passStart \subseteq fetched)

\* C17 witness: after more than one call, one of them in progress for a
\* single spec, a pass has fetched both polled specs.
C17_Witness ==
  /\ calls >= 2
  /\ pollPc = "sleep"
  /\ passStart = PolledSpecs
  /\ fetched = PolledSpecs
  /\ \E t \in Callers : \E en \in todo[t] : Cardinality(en.specs) = 1

\* C15: stay-alive policy.  A Throwable that escapes fetchAndBroadcast is
\* caught in run(): the step that logs it takes the thread to its sleep and
\* leaves the service state alone; the thread has exited only if stop() was
\* called; and after such an error the thread begins another pass unless
\* stop() is called.
C15_StayAlive ==
  /\ [][published'.src = "loopError"
          => /\ pollPc' = "sleep"
             /\ serviceState' = serviceState]_vars
  /\ [](pollPc = "exited" => stopCalled)
  /\ (published.src = "loopError") ~> (pollPc = "pass" \/ stopCalled)

\* C15 witness: run() has just caught an escaped Throwable with specs of the
\* pass still unvisited, the service is running and the thread at its sleep.
C15_Witness ==
  /\ published.src = "loopError"
  /\ pollPc = "sleep"
  /\ serviceState = "RUNNING"
  /\ ~stopCalled
  /\ passStart \ fetched # {}

\* Positions of a caller blocked in a blockingAwait of subscribe.
BlockedInSubscribe == {"unsubscribeAll", "resubscribeAll"}

\* C16: the polling loop never waits for the monitor of subscribe.  A pass
\* that is under way while some caller owns the monitor reaches its sleep,
\* however long the monitor is held; the steps of the background thread and
\* the steps that add polled specs neither take nor release the monitor.
C16_PollingNeverWaitsForLock ==
  /\ (pollPc = "pass" /\ lock # None) ~> (pollPc = "sleep")
  /\ [][(pollPc' # pollPc \/ published'.src = "poll" \/ activePolling' # activePolling)
          => lock' = lock]_vars

\* C16 witness: a caller owns the monitor, blocked in the first connect of
\* Z, while the background thread has just published a fetched ticker.
C16_Witness ==
  /\ lock # None
  /\ pc[lock] \in BlockedInSubscribe
  /\ sessions["Z"] = 0
  /\ published.src = "poll"
  /\ pollPc = "pass"

\* C14: the socket follows authorisation.  socketClient.connect() is called
\* only with authApi.authorised true; whatever follows a connect() in the
\* sequence of calls is a disconnect(), so a later connect() comes after it;
\* and once the effects have run with authorisation false, or the component
\* has unmounted, the latest call is not a connect().
C14_SocketFollowsAuthorisation ==
  /\ [][(Len(socketCalls') > Len(socketCalls)
           /\ socketCalls'[Len(socketCalls')] = "connect")
          => authorised /\ authorised']_vars
  /\ [](\A i \in 1..(Len(socketCalls) - 1) :
          socketCalls[i] = "connect" => socketCalls[i + 1] = "disconnect")
  /\ []((uiPc = "gone" \/ (uiPc = "idle" /\ ~authorised))
          => (socketCalls = <<>> \/ socketCalls[Len(socketCalls)] = "disconnect"))

\* C14 witness: the socket was connected, authorisation was lost and came
\* back, so that the socket was connected again, and is now lost again.
C14_Witness ==
  /\ uiPc = "idle"
  /\ ~authorised
  /\ Len(socketCalls) >= 4
  /\ \E i \in 1..Len(socketCalls) : \E j \in 1..Len(socketCalls) :
       i < j /\ socketCalls[i] = "connect" /\ socketCalls[j] = "connect"

====
